---- MODULE Spec2Model ----
(***************************************************************************)
(* A model of SortIT's planning and execution core                         *)
(* (data_processing_common.py).  Paths and names are Python strings; they  *)
(* are modelled as sequences of one-character strings so that path         *)
(* joining, extension splitting and numeric suffixes are computed the way  *)
(* the code computes them.                                                 *)
(***************************************************************************)
EXTENDS Integers, Sequences, FiniteSets, TLC

VARIABLES
    renamed_files,    \* caller-owned set of allocated destinations
    processed_files,  \* caller-owned set of source paths already seen
    calls,            \* history: one entry per compute_operations call
    plan,             \* one planning call and the operations it returned
    fs,               \* the filesystem: directories, files, the log file
    stdout,           \* the messages printed so far
    exec,             \* the frame of the execute_operations call
    sanitize,         \* one sanitize_filename call and what it returned
    compute,          \* the frame of a compute_operations call taken step by step
    gui               \* the window (FileOrganizerApp) and its worker threads

vars == <<renamed_files, processed_files, calls, plan, fs, stdout, exec,
          sanitize, compute, gui>>

sessionVars == <<renamed_files, processed_files, calls>>

execVars == <<fs, stdout, exec>>

(***************************************************************************)
(* Strings                                                                 *)
(***************************************************************************)
NoStr == << >>

\* str.rfind(c), 1-based; 0 when c does not occur (Python's -1).
RFind(s, c) ==
    LET hits == {i \in 1..Len(s) : s[i] = c}
    IN  IF hits = {} THEN 0 ELSE CHOOSE i \in hits : \A j \in hits : j <= i

\* one decimal digit as a character
Digit(d) ==
    CASE d = 0 -> "0" [] d = 1 -> "1" [] d = 2 -> "2" [] d = 3 -> "3"
      [] d = 4 -> "4" [] d = 5 -> "5" [] d = 6 -> "6" [] d = 7 -> "7"
      [] d = 8 -> "8" [] d = 9 -> "9"

RECURSIVE ToStr(_)
\* the decimal text an f-string gives a non-negative int
ToStr(n) == IF n < 10 THEN <<Digit(n)>> ELSE ToStr(n \div 10) \o <<Digit(n % 10)>>

\* os.path.splitext(p) as <<root, ext>> (POSIX): the extension starts at the
\* last dot of the last component, unless only dots precede it there.
SplitExt(p) ==
    LET sepIndex == RFind(p, "/")
        dotIndex == RFind(p, ".")
    IN  IF dotIndex > sepIndex
             /\ \E j \in (sepIndex + 1)..(dotIndex - 1) : p[j] # "."
        THEN <<SubSeq(p, 1, dotIndex - 1), SubSeq(p, dotIndex, Len(p))>>
        ELSE <<p, NoStr>>

\* os.path.join(a, b) (POSIX)
PathJoin(a, b) ==
    IF b # NoStr /\ b[1] = "/" THEN b
    ELSE IF a = NoStr \/ a[Len(a)] = "/" THEN a \o b
    ELSE a \o <<"/">> \o b

\* os.path.basename(p) (POSIX)
Basename(p) == SubSeq(p, RFind(p, "/") + 1, Len(p))

RECURSIVE RStripSep(_)
RStripSep(s) ==
    IF s # NoStr /\ s[Len(s)] = "/" THEN RStripSep(SubSeq(s, 1, Len(s) - 1)) ELSE s

\* os.path.dirname(p) (POSIX)
Dirname(p) ==
    LET head == SubSeq(p, 1, RFind(p, "/"))
    IN  IF head # NoStr /\ \E j \in 1..Len(head) : head[j] # "/"
        THEN RStripSep(head) ELSE head

(***************************************************************************)
(* compute_operations                                                      *)
(***************************************************************************)
\* the names used by the inputs below
OutRoot == <<"/", "o">>
FolderDocs == <<"d">>
StemReport == <<"r">>
StemReport1 == <<"r", "_", "1">>
SrcA == <<"/", "i", "/", "a", ".", "t">>
SrcB == <<"/", "i", "/", "b", ".", "t">>
SrcC == <<"/", "i", "/", "c", ".", "t">>
SrcE == <<"/", "i", "/", "e", ".", "u">>
SrcF == <<"/", "i", "/", "f">>

\* metadata records a caller may pass: {file_path, foldername, filename}
SourcePaths == {SrcA, SrcB, SrcC, SrcE, SrcF}
Records ==
    [file_path : SourcePaths, foldername : {FolderDocs},
     filename : {StemReport, StemReport1}]

\* total number of records handed to compute_operations in one session
MaxRecords == 3

DataLists(n) == UNION {[1..k -> Records] : k \in 1..n}

\* the membership test dropped
AlreadyProcessedNever(file_path, processed) == FALSE

\* line 208: if file_path in processed_files
AlreadyProcessed(file_path, processed) == file_path \in processed

\* line 214: data['filename'] + os.path.splitext(file_path)[1]
PlainName(filename, file_path) == filename \o SplitExt(file_path)[2]

\* the suffix put after the extension
SuffixedNameAfterExt(filename, counter, file_path) ==
    filename \o SplitExt(file_path)[2] \o <<"_">> \o ToStr(counter)

\* the suffix that does not follow the counter
SuffixedNameUncounted(filename, counter, file_path) ==
    filename \o <<"_", "1">> \o SplitExt(file_path)[2]

\* line 224: f"{data['filename']}_{counter}" + os.path.splitext(file_path)[1]
SuffixedName(filename, counter, file_path) ==
    filename \o <<"_">> \o ToStr(counter) \o SplitExt(file_path)[2]

\* numbering from 0
CounterStartZero == 1 - 1

\* line 221: counter = 1
CounterStart == 1

RECURSIVE DuplicateLoop(_, _, _, _)
\* lines 223-226: the while loop; st = [new_file_name, new_file_path, counter]
DuplicateLoop(data, dir_path, renamed, st) ==
    IF st.new_file_path \in renamed
    THEN LET name == SuffixedName(data.filename, st.counter, data.file_path)
         IN  DuplicateLoop(data, dir_path, renamed,
                 [new_file_name |-> name,
                  new_file_path |-> PathJoin(dir_path, name),
                  counter |-> st.counter + 1])
    ELSE st

\* lines 232-238: the operation record
Operation(file_path, new_file_path, folder_name, new_file_name) ==
    [source |-> file_path, destination |-> new_file_path,
     link_type |-> "hardlink", folder_name |-> folder_name,
     new_file_name |-> new_file_name]

\* the set replaced by the one path
AddProcessedOnly(processed, file_path) == {file_path}

\* line 210: processed_files.add(file_path)
AddProcessed(processed, file_path) == processed \cup {file_path}

\* the allocation not recorded
AddRenamedForgotten(renamed, new_file_path) == renamed

\* line 240: renamed_files.add(new_file_path)
AddRenamed(renamed, new_file_path) == renamed \cup {new_file_path}

\* lines 207-240: the loop body for one record.  acc holds the operations
\* list, the two sets, and `steps`: what happened to each record so far
\* (the sets as the record found them, and the operation it produced).
RecordStep(data, new_path, acc) ==
    LET file_path == data.file_path
    IN  IF AlreadyProcessed(file_path, acc.processed_files)
        THEN [acc EXCEPT !.steps = Append(@,
                 [data |-> data, skipped |-> TRUE,
                  renamed_before |-> acc.renamed_files,
                  processed_before |-> acc.processed_files,
                  renamed_after |-> acc.renamed_files,
                  operation |-> Operation(NoStr, NoStr, NoStr, NoStr)])]
        ELSE LET folder_name == data.foldername
                 new_file_name == PlainName(data.filename, file_path)
                 dir_path == PathJoin(new_path, folder_name)
                 st == DuplicateLoop(data, dir_path, acc.renamed_files,
                           [new_file_name |-> new_file_name,
                            new_file_path |-> PathJoin(dir_path, new_file_name),
                            counter |-> CounterStart])
                 op == Operation(file_path, st.new_file_path, folder_name,
                                 st.new_file_name)
                 renamed == AddRenamed(acc.renamed_files, st.new_file_path)
             IN  [operations |-> Append(acc.operations, op),
                  renamed_files |-> renamed,
                  processed_files |-> AddProcessed(acc.processed_files, file_path),
                  steps |-> Append(acc.steps,
                      [data |-> data, skipped |-> FALSE,
                       renamed_before |-> acc.renamed_files,
                       processed_before |-> acc.processed_files,
                       renamed_after |-> renamed,
                       operation |-> op])]

RECURSIVE ComputeLoop(_, _, _, _)
ComputeLoop(data_list, new_path, i, acc) ==
    IF i > Len(data_list) THEN acc
    ELSE ComputeLoop(data_list, new_path, i + 1,
                     RecordStep(data_list[i], new_path, acc))

\* compute_operations(data_list, new_path, renamed_files, processed_files):
\* the returned operations and the two sets as the call leaves them
ComputeOperations(data_list, new_path, renamed, processed) ==
    ComputeLoop(data_list, new_path, 1,
        [operations |-> << >>, renamed_files |-> renamed,
         processed_files |-> processed, steps |-> << >>])

(***************************************************************************)
(* process_files_by_type                                                   *)
(***************************************************************************)
\* lines 67-147: file_categories, in the dict's insertion order:
\* <<main category, <<subcategory, extensions>> ...>>
file_categories == <<
    <<<<"i", "m", "a", "g", "e", "s">>, <<
        <<<<"r", "a", "s", "t", "e", "r", "_", "i", "m", "a", "g", "e", "s">>, <<
            <<".", "j", "p", "g">>,
            <<".", "j", "p", "e", "g">>,
            <<".", "p", "n", "g">>,
            <<".", "g", "i", "f">>,
            <<".", "b", "m", "p">>,
            <<".", "t", "i", "f", "f">>,
            <<".", "t", "i", "f">>,
            <<".", "w", "e", "b", "p">>,
            <<".", "h", "e", "i", "c">>,
            <<".", "h", "e", "i", "f">>,
            <<".", "r", "a", "w">>,
            <<".", "c", "r", "2">>,
            <<".", "n", "e", "f">>,
            <<".", "a", "r", "w">>>> >>,
        <<<<"v", "e", "c", "t", "o", "r", "_", "i", "m", "a", "g", "e", "s">>, <<
            <<".", "s", "v", "g">>,
            <<".", "a", "i">>,
            <<".", "e", "p", "s">>,
            <<".", "c", "d", "r">>>> >>,
        <<<<"p", "h", "o", "t", "o", "s", "h", "o", "p">>, <<
            <<".", "p", "s", "d">>,
            <<".", "p", "s", "b">>,
            <<".", "x", "c", "f">>>> >>,
        <<<<"i", "c", "o", "n", "s">>, <<
            <<".", "i", "c", "o">>,
            <<".", "i", "c", "n", "s">>>> >>>> >>,
    <<<<"d", "o", "c", "u", "m", "e", "n", "t", "s">>, <<
        <<<<"p", "l", "a", "i", "n", "_", "t", "e", "x", "t">>, <<
            <<".", "t", "x", "t">>,
            <<".", "m", "d">>,
            <<".", "m", "a", "r", "k", "d", "o", "w", "n">>,
            <<".", "r", "s", "t">>,
            <<".", "r", "t", "f">>,
            <<".", "t", "e", "x">>,
            <<".", "l", "o", "g">>>> >>,
        <<<<"w", "o", "r", "d", "_", "p", "r", "o", "c", "e", "s", "s", "i", "n", "g">>, <<
            <<".", "d", "o", "c">>,
            <<".", "d", "o", "c", "x">>,
            <<".", "o", "d", "t">>,
            <<".", "p", "a", "g", "e", "s">>,
            <<".", "w", "p", "d">>>> >>,
        <<<<"s", "p", "r", "e", "a", "d", "s", "h", "e", "e", "t", "s">>, <<
            <<".", "x", "l", "s">>,
            <<".", "x", "l", "s", "x">>,
            <<".", "x", "l", "s", "m">>,
            <<".", "o", "d", "s">>,
            <<".", "n", "u", "m", "b", "e", "r", "s">>,
            <<".", "c", "s", "v">>,
            <<".", "t", "s", "v">>>> >>,
        <<<<"p", "r", "e", "s", "e", "n", "t", "a", "t", "i", "o", "n", "s">>, <<
            <<".", "p", "p", "t">>,
            <<".", "p", "p", "t", "x">>,
            <<".", "o", "d", "p">>,
            <<".", "k", "e", "y">>>> >>,
        <<<<"p", "d", "f">>, <<
            <<".", "p", "d", "f">>>> >>,
        <<<<"e", "b", "o", "o", "k", "s">>, <<
            <<".", "e", "p", "u", "b">>,
            <<".", "m", "o", "b", "i">>,
            <<".", "a", "z", "w">>,
            <<".", "a", "z", "w", "3">>,
            <<".", "f", "b", "2">>,
            <<".", "d", "j", "v", "u">>,
            <<".", "c", "b", "r">>,
            <<".", "c", "b", "z">>>> >>,
        <<<<"t", "e", "c", "h", "n", "i", "c", "a", "l", "_", "d", "o", "c", "s">>, <<
            <<".", "x", "m", "l">>,
            <<".", "x", "h", "t", "m", "l">>,
            <<".", "d", "t", "d">>,
            <<".", "s", "g", "m", "l">>,
            <<".", "y", "a", "m", "l">>,
            <<".", "y", "m", "l">>,
            <<".", "j", "s", "o", "n">>,
            <<".", "t", "o", "m", "l">>>> >>>> >>,
    <<<<"a", "u", "d", "i", "o">>, <<
        <<<<"m", "u", "s", "i", "c">>, <<
            <<".", "m", "p", "3">>,
            <<".", "a", "a", "c">>,
            <<".", "f", "l", "a", "c">>,
            <<".", "a", "l", "a", "c">>,
            <<".", "w", "a", "v">>,
            <<".", "w", "m", "a">>,
            <<".", "o", "g", "g">>,
            <<".", "o", "p", "u", "s">>>> >>,
        <<<<"v", "o", "i", "c", "e">>, <<
            <<".", "m", "4", "a">>,
            <<".", "a", "m", "r">>,
            <<".", "a", "i", "f", "f">>,
            <<".", "a", "i", "f">>,
            <<".", "a", "i", "f", "c">>>> >>,
        <<<<"p", "r", "o", "d", "u", "c", "t", "i", "o", "n">>, <<
            <<".", "m", "i", "d">>,
            <<".", "m", "i", "d", "i">>,
            <<".", "a", "u", "p">>,
            <<".", "s", "e", "s", "x">>,
            <<".", "b", "a", "n", "d">>>> >>>> >>,
    <<<<"v", "i", "d", "e", "o">>, <<
        <<<<"c", "o", "m", "m", "o", "n">>, <<
            <<".", "m", "p", "4">>,
            <<".", "m", "o", "v">>,
            <<".", "a", "v", "i">>,
            <<".", "m", "k", "v">>,
            <<".", "w", "m", "v">>,
            <<".", "f", "l", "v">>,
            <<".", "w", "e", "b", "m">>,
            <<".", "m", "4", "v">>,
            <<".", "m", "p", "g">>,
            <<".", "m", "p", "e", "g">>,
            <<".", "3", "g", "p">>>> >>,
        <<<<"p", "r", "o", "f", "e", "s", "s", "i", "o", "n", "a", "l">>, <<
            <<".", "m", "x", "f">>,
            <<".", "r", "3", "d">>,
            <<".", "b", "r", "a", "w">>,
            <<".", "p", "r", "p", "r", "o", "j">>,
            <<".", "f", "c", "p", "x">>,
            <<".", "d", "a", "v">>>> >>>> >>,
    <<<<"a", "r", "c", "h", "i", "v", "e", "s">>, <<
        <<<<"c", "o", "m", "m", "o", "n">>, <<
            <<".", "z", "i", "p">>,
            <<".", "r", "a", "r">>,
            <<".", "7", "z">>,
            <<".", "t", "a", "r">>,
            <<".", "g", "z">>,
            <<".", "b", "z", "2">>,
            <<".", "x", "z">>,
            <<".", "t", "g", "z">>,
            <<".", "i", "s", "o">>>> >>>> >>,
    <<<<"c", "o", "d", "e">>, <<
        <<<<"s", "c", "r", "i", "p", "t", "s">>, <<
            <<".", "p", "y">>,
            <<".", "j", "s">>,
            <<".", "p", "h", "p">>,
            <<".", "r", "b">>,
            <<".", "p", "l">>,
            <<".", "s", "h">>,
            <<".", "b", "a", "s", "h">>,
            <<".", "p", "s", "1">>,
            <<".", "b", "a", "t">>,
            <<".", "c", "m", "d">>>> >>,
        <<<<"m", "a", "r", "k", "u", "p">>, <<
            <<".", "h", "t", "m", "l">>,
            <<".", "h", "t", "m">>,
            <<".", "c", "s", "s">>,
            <<".", "s", "c", "s", "s">>,
            <<".", "s", "a", "s", "s">>,
            <<".", "l", "e", "s", "s">>>> >>,
        <<<<"c", "o", "m", "p", "i", "l", "e", "d">>, <<
            <<".", "c">>,
            <<".", "c", "p", "p">>,
            <<".", "h">>,
            <<".", "h", "p", "p">>,
            <<".", "c", "s">>,
            <<".", "j", "a", "v", "a">>,
            <<".", "g", "o">>,
            <<".", "r", "s">>,
            <<".", "s", "w", "i", "f", "t">>>> >>,
        <<<<"d", "a", "t", "a", "_", "s", "c", "i", "e", "n", "c", "e">>, <<
            <<".", "i", "p", "y", "n", "b">>,
            <<".", "r">>,
            <<".", "r", "m", "d">>,
            <<".", "j", "l">>>> >>,
        <<<<"c", "o", "n", "f", "i", "g">>, <<
            <<".", "i", "n", "i">>,
            <<".", "c", "o", "n", "f">>,
            <<".", "c", "f", "g">>,
            <<".", "p", "r", "o", "p", "e", "r", "t", "i", "e", "s">>>> >>>> >>,
    <<<<"d", "a", "t", "a">>, <<
        <<<<"d", "a", "t", "a", "b", "a", "s", "e", "s">>, <<
            <<".", "d", "b">>,
            <<".", "s", "q", "l", "i", "t", "e">>,
            <<".", "s", "q", "l", "i", "t", "e", "3">>,
            <<".", "m", "d", "b">>,
            <<".", "a", "c", "c", "d", "b">>,
            <<".", "s", "q", "l">>,
            <<".", "b", "a", "k">>>> >>,
        <<<<"d", "a", "t", "a", "_", "f", "o", "r", "m", "a", "t", "s">>, <<
            <<".", "d", "a", "t">>,
            <<".", "s", "a", "v">>,
            <<".", "b", "i", "n">>,
            <<".", "p", "k", "l">>,
            <<".", "p", "a", "r", "q", "u", "e", "t">>,
            <<".", "a", "v", "r", "o">>,
            <<".", "o", "r", "c">>>> >>>> >>,
    <<<<"e", "x", "e", "c", "u", "t", "a", "b", "l", "e", "s">>, <<
        <<<<"p", "r", "o", "g", "r", "a", "m", "s">>, <<
            <<".", "e", "x", "e">>,
            <<".", "a", "p", "p">>,
            <<".", "d", "m", "g">>,
            <<".", "p", "k", "g">>,
            <<".", "d", "e", "b">>,
            <<".", "r", "p", "m">>,
            <<".", "m", "s", "i">>,
            <<".", "a", "p", "k">>,
            <<".", "i", "p", "a">>>> >>,
        <<<<"l", "i", "b", "r", "a", "r", "i", "e", "s">>, <<
            <<".", "d", "l", "l">>,
            <<".", "s", "o">>,
            <<".", "d", "y", "l", "i", "b">>>> >>>> >>,
    <<<<"d", "e", "s", "i", "g", "n">>, <<
        <<<<"3", "d", "_", "m", "o", "d", "e", "l", "s">>, <<
            <<".", "o", "b", "j">>,
            <<".", "s", "t", "l">>,
            <<".", "f", "b", "x">>,
            <<".", "b", "l", "e", "n", "d">>,
            <<".", "3", "d", "s">>,
            <<".", "c", "4", "d">>,
            <<".", "m", "a", "x">>>> >>,
        <<<<"c", "a", "d">>, <<
            <<".", "d", "w", "g">>,
            <<".", "d", "x", "f">>,
            <<".", "s", "k", "p">>>> >>,
        <<<<"d", "e", "s", "i", "g", "n">>, <<
            <<".", "i", "n", "d", "d">>,
            <<".", "s", "k", "e", "t", "c", "h">>,
            <<".", "f", "i", "g">>,
            <<".", "x", "d">>>> >>>> >>,
    <<<<"f", "o", "n", "t", "s">>, <<
        <<<<"f", "o", "n", "t", "_", "f", "i", "l", "e", "s">>, <<
            <<".", "t", "t", "f">>,
            <<".", "o", "t", "f">>,
            <<".", "w", "o", "f", "f">>,
            <<".", "w", "o", "f", "f", "2">>,
            <<".", "e", "o", "t">>>> >>>> >>,
    <<<<"w", "e", "b">>, <<
        <<<<"w", "e", "b", "_", "a", "s", "s", "e", "t", "s">>, <<
            <<".", "a", "s", "p">>,
            <<".", "a", "s", "p", "x">>,
            <<".", "j", "s", "p">>,
            <<".", "p", "h", "p">>,
            <<".", "h", "t", "a", "c", "c", "e", "s", "s">>,
            <<".", "h", "t", "p", "a", "s", "s", "w", "d">>,
            <<".", "u", "r", "l">>,
            <<".", "w", "e", "b", "l", "o", "c">>>> >>>> >>,
    <<<<"s", "y", "s", "t", "e", "m">>, <<
        <<<<"s", "y", "s", "t", "e", "m", "_", "f", "i", "l", "e", "s">>, <<
            <<".", "s", "y", "s">>,
            <<".", "t", "m", "p">>,
            <<".", "c", "a", "c", "h", "e">>,
            <<".", "s", "w", "p">>,
            <<".", "b", "a", "k">>,
            <<".", "o", "l", "d">>,
            <<".", "l", "o", "g">>,
            <<".", "l", "n", "k">>,
            <<".", "s", "h", "o", "r", "t", "c", "u", "t">>,
            <<".", "p", "l", "i", "s", "t">>>> >>>> >>>>

\* lines 150-153: the main categories that have exactly one subcategory
single_subcategory_mains ==
    {file_categories[i][1] : i \in {j \in 1..Len(file_categories) :
                                       Len(file_categories[j][2]) = 1}}

\* the (ext, (main, sub)) assignments of lines 157-160, in execution order
ExtEntries(main, sub, exts) == [i \in 1..Len(exts) |-> <<exts[i], <<main, sub>>>>]

RECURSIVE CatEntries(_, _)
CatEntries(main, subs) ==
    IF subs = << >> THEN << >>
    ELSE ExtEntries(main, Head(subs)[1], Head(subs)[2]) \o CatEntries(main, Tail(subs))

RECURSIVE AllEntries(_)
AllEntries(cats) ==
    IF cats = << >> THEN << >>
    ELSE CatEntries(Head(cats)[1], Head(cats)[2]) \o AllEntries(Tail(cats))

\* lines 156-160: the flat extension -> (main, sub) table.  The loop assigns
\* extension_to_category[ext] entry by entry, so an extension listed more
\* than once keeps the pair assigned last.
extension_to_category ==
    LET entries == AllEntries(file_categories)
        LastOf(ext) == CHOOSE i \in 1..Len(entries) :
                          /\ entries[i][1] = ext
                          /\ \A j \in (i + 1)..Len(entries) : entries[j][1] # ext
    IN  [ext \in {entries[i][1] : i \in 1..Len(entries)} |-> entries[LastOf(ext)][2]]

UpperChars == <<"A", "B", "C", "D", "E", "F", "G", "H", "I", "J", "K", "L", "M",
                "N", "O", "P", "Q", "R", "S", "T", "U", "V", "W", "X", "Y", "Z">>
LowerChars == <<"a", "b", "c", "d", "e", "f", "g", "h", "i", "j", "k", "l", "m",
                "n", "o", "p", "q", "r", "s", "t", "u", "v", "w", "x", "y", "z">>

\* the text taken as it is written
LowerAsWritten(s) == s

\* str.lower() on ASCII text
LowerChar(c) ==
    IF \E i \in 1..Len(UpperChars) : UpperChars[i] = c
    THEN LowerChars[CHOOSE i \in 1..Len(UpperChars) : UpperChars[i] = c]
    ELSE c
Lower(s) == [i \in 1..Len(s) |-> LowerChar(s[i])]

\* the dot looked for at the start of the whole path
IsHiddenWholePath(file_path) == file_path # NoStr /\ file_path[1] = "."

\* line 164: os.path.basename(file_path).startswith('.')
IsHidden(file_path) ==
    LET b == Basename(file_path) IN b # NoStr /\ b[1] = "."

FolderOthers == <<"o", "t", "h", "e", "r", "s">>

\* the folder without the single-subcategory rule
FolderNameNeverBare(file_path) ==
    LET ext == Lower(SplitExt(file_path)[2])
    IN  IF ext \in DOMAIN extension_to_category
        THEN PathJoin(extension_to_category[ext][1], extension_to_category[ext][2])
        ELSE FolderOthers

\* lines 168-181: the folder of a file that is not hidden
FolderName(file_path) ==
    LET ext == Lower(SplitExt(file_path)[2])
    IN  IF ext \in DOMAIN extension_to_category
        THEN LET main_category == extension_to_category[ext][1]
                 subcategory == extension_to_category[ext][2]
             IN  IF main_category \in single_subcategory_mains
                 THEN main_category
                 ELSE PathJoin(main_category, subcategory)
        ELSE FolderOthers

\* lines 53-57 and 194-198: the operation record of by-date and by-type
LinkOperation(file_path, new_file_path) ==
    [source |-> file_path, destination |-> new_file_path, link_type |-> "hardlink"]

\* lines 184-198
TypeOperation(file_path, output_path) ==
    LET dir_path == PathJoin(output_path, FolderName(file_path))
        new_file_name == Basename(file_path)
    IN  LinkOperation(file_path, PathJoin(dir_path, new_file_name))

RECURSIVE ProcessFilesByType(_, _)
\* lines 162-201: process_files_by_type(file_paths, output_path)
ProcessFilesByType(file_paths, output_path) ==
    IF file_paths = << >> THEN << >>
    ELSE IF IsHidden(Head(file_paths))
         THEN ProcessFilesByType(Tail(file_paths), output_path)
         ELSE <<TypeOperation(Head(file_paths), output_path)>>
                  \o ProcessFilesByType(Tail(file_paths), output_path)

(***************************************************************************)
(* process_files_by_date                                                   *)
(***************************************************************************)
\* strftime('%B') in the C locale, by month number
MonthNames == <<
    <<"J", "a", "n", "u", "a", "r", "y">>,
    <<"F", "e", "b", "r", "u", "a", "r", "y">>,
    <<"M", "a", "r", "c", "h">>,
    <<"A", "p", "r", "i", "l">>,
    <<"M", "a", "y">>,
    <<"J", "u", "n", "e">>,
    <<"J", "u", "l", "y">>,
    <<"A", "u", "g", "u", "s", "t">>,
    <<"S", "e", "p", "t", "e", "m", "b", "e", "r">>,
    <<"O", "c", "t", "o", "b", "e", "r">>,
    <<"N", "o", "v", "e", "m", "b", "e", "r">>,
    <<"D", "e", "c", "e", "m", "b", "e", "r">>>>

\* the destination named by the stem alone
DateOperationStemOnly(file_path, output_path, mod) ==
    LET dir_path == PathJoin(PathJoin(output_path, ToStr(mod.year)), MonthNames[mod.month])
    IN  LinkOperation(file_path, PathJoin(dir_path, SplitExt(Basename(file_path))[1]))

\* lines 40-57: mod is the file's modification time as [year, month]
DateOperation(file_path, output_path, mod) ==
    LET year == ToStr(mod.year)
        month == MonthNames[mod.month]
        dir_path == PathJoin(PathJoin(output_path, year), month)
        new_file_name == Basename(file_path)
    IN  LinkOperation(file_path, PathJoin(dir_path, new_file_name))

\* lines 35-59: process_files_by_date(file_paths, output_path); getmtime maps
\* each path to its modification time
ProcessFilesByDate(file_paths, output_path, getmtime) ==
    [i \in 1..Len(file_paths) |->
        DateOperation(file_paths[i], output_path, getmtime[file_paths[i]])]

(***************************************************************************)
(* sanitize_filename                                                       *)
(***************************************************************************)
\* line 6: the default arguments
DefaultMaxLength == 50
DefaultMaxWords == 5

\* lines 12-14: the words of the pattern \b(...)\b
StopWords ==
    {<<"j", "p", "g">>, <<"j", "p", "e", "g">>, <<"p", "n", "g">>,
     <<"g", "i", "f">>, <<"b", "m", "p">>, <<"t", "x", "t">>, <<"m", "d">>,
     <<"p", "d", "f">>, <<"d", "o", "c", "x">>, <<"x", "l", "s">>,
     <<"x", "l", "s", "x">>, <<"c", "s", "v">>, <<"p", "p", "t">>,
     <<"p", "p", "t", "x">>, <<"i", "m", "a", "g", "e">>,
     <<"p", "i", "c", "t", "u", "r", "e">>, <<"p", "h", "o", "t", "o">>,
     <<"t", "h", "i", "s">>, <<"t", "h", "a", "t">>,
     <<"t", "h", "e", "s", "e">>, <<"t", "h", "o", "s", "e">>,
     <<"h", "e", "r", "e">>, <<"t", "h", "e", "r", "e">>,
     <<"p", "l", "e", "a", "s", "e">>, <<"n", "o", "t", "e">>,
     <<"a", "d", "d", "i", "t", "i", "o", "n", "a", "l">>,
     <<"n", "o", "t", "e", "s">>, <<"f", "o", "l", "d", "e", "r">>,
     <<"n", "a", "m", "e">>, <<"s", "u", "r", "e">>,
     <<"h", "e", "r", "e", "s">>, <<"a">>, <<"a", "n">>, <<"t", "h", "e">>,
     <<"a", "n", "d">>, <<"o", "f">>, <<"i", "n">>, <<"t", "o">>,
     <<"f", "o", "r">>, <<"o", "n">>, <<"w", "i", "t", "h">>,
     <<"y", "o", "u", "r">>, <<"a", "n", "s", "w", "e", "r">>,
     <<"s", "h", "o", "u", "l", "d">>, <<"b", "e">>, <<"o", "n", "l", "y">>,
     <<"s", "u", "m", "m", "a", "r", "y">>,
     <<"s", "u", "m", "m", "a", "r", "i", "z", "e">>, <<"t", "e", "x", "t">>,
     <<"c", "a", "t", "e", "g", "o", "r", "y">>}

DigitChars == {"0", "1", "2", "3", "4", "5", "6", "7", "8", "9"}
LetterChars == {UpperChars[i] : i \in 1..Len(UpperChars)}
                  \cup {LowerChars[i] : i \in 1..Len(LowerChars)}

\* \w and \s of the re module, on ASCII text
IsWordChar(c) == c \in LetterChars \cup DigitChars \cup {"_"}
SpaceChars == {" ", "\t", "\n", "\r"}
IsSpace(c) == c \in SpaceChars

\* length of the longest prefix of s made of \w characters
RECURSIVE WordRun(_)
WordRun(s) == IF s # NoStr /\ IsWordChar(s[1]) THEN 1 + WordRun(Tail(s)) ELSE 0

RECURSIVE RemoveStopWords(_)
\* lines 11-18: re.sub(r'\b(w1|w2|...)\b', '', name, flags=re.IGNORECASE).
\* \b stands between a \w and a non-\w character (or an end of the text), so
\* a match is a maximal run of \w characters -- letters, digits and
\* underscores -- that is, as a whole, one of the words ignoring case.
RemoveStopWords(s) ==
    IF s = NoStr THEN NoStr
    ELSE IF IsWordChar(s[1])
         THEN LET n == WordRun(s)
                  run == SubSeq(s, 1, n)
              IN  (IF Lower(run) \in StopWords THEN NoStr ELSE run)
                      \o RemoveStopWords(SubSeq(s, n + 1, Len(s)))
         ELSE <<s[1]>> \o RemoveStopWords(Tail(s))

\* punctuation left in the name
RemovePunctuationNot(s) == s

\* line 20: re.sub(r'[^\w\s]', '', name)
RemovePunctuation(s) == SelectSeq(s, LAMBDA c : IsWordChar(c) \/ IsSpace(c))

RECURSIVE LStrip(_, _)
\* str.lstrip(chars)
LStrip(s, chars) == IF s # NoStr /\ s[1] \in chars THEN LStrip(Tail(s), chars) ELSE s

RECURSIVE RStrip(_, _)
\* str.rstrip(chars)
RStrip(s, chars) ==
    IF s # NoStr /\ s[Len(s)] \in chars
    THEN RStrip(SubSeq(s, 1, Len(s) - 1), chars) ELSE s

\* line 20: .strip()
StripSpace(s) == RStrip(LStrip(s, SpaceChars), SpaceChars)

\* line 26: .strip('_')
StripUnderscore(s) == RStrip(LStrip(s, {"_"}), {"_"})

RECURSIVE CollapseSeparators(_)
\* line 22: re.sub(r'[\s_]+', '_', sanitized)
CollapseSeparators(s) ==
    IF s = NoStr THEN NoStr
    ELSE IF IsSpace(s[1]) \/ s[1] = "_"
         THEN <<"_">> \o CollapseSeparators(LStrip(s, SpaceChars \cup {"_"}))
         ELSE <<s[1]>> \o CollapseSeparators(Tail(s))

RECURSIVE SplitUnderscore(_)
\* line 28: sanitized.split('_'): the pieces between underscores
SplitUnderscore(s) ==
    LET hits == {i \in 1..Len(s) : s[i] = "_"}
    IN  IF hits = {} THEN <<s>>
        ELSE LET i == CHOOSE h \in hits : \A g \in hits : h <= g
             IN  <<SubSeq(s, 1, i - 1)>> \o SplitUnderscore(SubSeq(s, i + 1, Len(s)))

\* the slice seq[:n] of Python, n negative included
SliceTo(seq, n) ==
    IF n >= 0 THEN SubSeq(seq, 1, IF n < Len(seq) THEN n ELSE Len(seq))
    ELSE SubSeq(seq, 1, Len(seq) + n)

RECURSIVE JoinUnderscore(_)
\* line 31: '_'.join(limited_words)
JoinUnderscore(words) ==
    IF words = << >> THEN NoStr
    ELSE IF Len(words) = 1 THEN words[1]
    ELSE words[1] \o <<"_">> \o JoinUnderscore(Tail(words))

Untitled == <<"u", "n", "t", "i", "t", "l", "e", "d">>

\* lines 6-33: sanitize_filename(name, max_length, max_words)
SanitizeFilename(name, max_length, max_words) ==
    LET root == SplitExt(name)[1]
        kept == RemoveStopWords(root)
        stripped == StripSpace(RemovePunctuation(kept))
        sanitized == StripUnderscore(Lower(CollapseSeparators(stripped)))
        words == SplitUnderscore(sanitized)
        limited_words == SliceTo(SelectSeq(words, LAMBDA w : w # NoStr), max_words)
        limited_name == JoinUnderscore(limited_words)
    IN  IF limited_name # NoStr THEN SliceTo(limited_name, max_length) ELSE Untitled

\* the characters the names below are written with
NameChars == {"a", "n", "A", "_", " ", "-", ".", "/"}

\* length of the name given to sanitize_filename
MaxNameLen == 3

Names == UNION {[1..k -> NameChars] : k \in 0..MaxNameLen}

\* sanitize_filename has not been called
NotSanitized == [called |-> FALSE, name |-> NoStr, max_length |-> DefaultMaxLength,
                 max_words |-> DefaultMaxWords, result |-> NoStr]

\* the max_length and max_words a caller may pass
MaxLengths == {0, 1, 2, 8, DefaultMaxLength}
MaxWordsChoices == {0, 1, 2, DefaultMaxWords}

(***************************************************************************)
(* Inputs of single planning calls                                         *)
(***************************************************************************)
PathJpg == <<"/", "i", "/", "a", ".", "j", "p", "g">>
PathJpgOtherDir == <<"/", "j", "/", "a", ".", "j", "p", "g">>
PathJpgUpper == <<"/", "i", "/", "A", ".", "J", "P", "G">>
PathZip == <<"/", "i", "/", "b", ".", "z", "i", "p">>
PathHidden == <<"/", "i", "/", ".", "h", ".", "p", "n", "g">>
PathNoExt == <<"/", "i", "/", "c">>
PathPhp == <<"/", "i", "/", "d", ".", "p", "h", "p">>
PathUnknown == <<"/", "i", "/", "e", ".", "q">>

\* the files a directory walk may hand to a planner
FilePaths == {PathJpg, PathJpgOtherDir, PathJpgUpper, PathZip, PathHidden,
              PathNoExt, PathPhp, PathUnknown}

\* length of the list given to one planning call
MaxPaths == 2

\* a directory walk lists every file once
FileLists ==
    UNION {{l \in [1..k -> FilePaths] : \A i, j \in 1..k : i # j => l[i] # l[j]} :
              k \in 0..MaxPaths}

ModTimes == [year : {2024}, month : {1, 2}]

SeqRange(l) == {l[i] : i \in 1..Len(l)}

(***************************************************************************)
(* The filesystem execute_operations acts on                               *)
(***************************************************************************)
RootDir == <<"/">>
InDir == <<"/", "i">>
InA == <<"/", "i", "/", "a">>
InB == <<"/", "i", "/", "b">>
InC == <<"/", "i", "/", "c">>
OutFile == <<"/", "o", "/", "f">>
DestA == <<"/", "o", "/", "d", "/", "a">>
DestB == <<"/", "o", "/", "d", "/", "b">>
DestS == <<"/", "o", "/", "d", "/", "s">>
DestUnderFile == <<"/", "o", "/", "f", "/", "a">>
LogPath == <<"/", "l">>

\* a filesystem: the directories, the files (path -> what the name points
\* to: an inode number, or <<"symlink", target>>), and the lines of the log
\* file (log_exists: the log file has been created).  /i/a and /i/c exist,
\* /i/b does not; with f_blocks, /o/f is a regular file.
FsInit(f_blocks) ==
    [dirs |-> {RootDir, InDir} \cup (IF f_blocks THEN {OutRoot} ELSE {}),
     files |-> (InA :> 1) @@ (InC :> 3)
                  @@ (IF f_blocks THEN (OutFile :> 4) ELSE << >>),
     log_exists |-> FALSE,
     log |-> << >>]

\* the same filesystem where /o/d/a is already a file, left by an earlier run
FsWithDest(f) ==
    [f EXCEPT !.dirs = @ \cup {OutRoot, Dirname(DestA)},
              !.files = (DestA :> 9) @@ @]

FsExists(f, p) == p \in f.dirs \/ p \in DOMAIN f.files

\* os.mkdir(d): [ok, fs]
Mkdir(f, d) ==
    IF d # NoStr /\ ~FsExists(f, d) /\ (Dirname(d) = NoStr \/ Dirname(d) \in f.dirs)
    THEN [ok |-> TRUE, fs |-> [f EXCEPT !.dirs = @ \cup {d}]]
    ELSE [ok |-> FALSE, fs |-> f]

RECURSIVE Makedirs(_, _)
\* line 265: os.makedirs(d, exist_ok=True): [ok, fs].  Missing ancestors are
\* created first; an existing directory is accepted; anything else that
\* makes mkdir fail is raised.
Makedirs(f, d) ==
    LET head == Dirname(d)
        tail == Basename(d)
        up == IF head # NoStr /\ tail # NoStr /\ ~FsExists(f, head)
              THEN Makedirs(f, head) ELSE [ok |-> TRUE, fs |-> f]
    IN  IF ~up.ok THEN up
        ELSE LET made == Mkdir(up.fs, d)
             IN  IF made.ok \/ d \in up.fs.dirs
                 THEN [ok |-> TRUE, fs |-> made.fs]
                 ELSE [ok |-> FALSE, fs |-> up.fs]

\* a link that leaves an empty file behind when it fails
LinkLeavingStub(f, source, destination) ==
    IF /\ source \in DOMAIN f.files
       /\ ~FsExists(f, destination)
       /\ Dirname(destination) \in f.dirs
    THEN [ok |-> TRUE,
          fs |-> [f EXCEPT !.files = (destination :> f.files[source]) @@ @]]
    ELSE [ok |-> FALSE,
          fs |-> IF FsExists(f, destination) THEN f
                 ELSE [f EXCEPT !.files = (destination :> 0) @@ @]]

\* a link that replaces what is at the destination
LinkReplacing(f, source, destination) ==
    IF source \in DOMAIN f.files /\ Dirname(destination) \in f.dirs
    THEN [ok |-> TRUE,
          fs |-> [f EXCEPT !.files = (destination :> f.files[source]) @@ @]]
    ELSE [ok |-> FALSE, fs |-> f]

\* line 269: os.link(source, destination): [ok, fs]
Link(f, source, destination) ==
    IF /\ source \in DOMAIN f.files
       /\ ~FsExists(f, destination)
       /\ Dirname(destination) \in f.dirs
    THEN [ok |-> TRUE,
          fs |-> [f EXCEPT !.files = (destination :> f.files[source]) @@ @]]
    ELSE [ok |-> FALSE, fs |-> f]

\* line 271: os.symlink(source, destination): [ok, fs]
Symlink(f, source, destination) ==
    IF ~FsExists(f, destination) /\ Dirname(destination) \in f.dirs
    THEN [ok |-> TRUE,
          fs |-> [f EXCEPT !.files = (destination :> <<"symlink", source>>) @@ @]]
    ELSE [ok |-> FALSE, fs |-> f]

(***************************************************************************)
(* execute_operations                                                      *)
(***************************************************************************)
\* lines 262, 272, 274: the message of an operation
Message(text, operation) ==
    [text |-> text, link_type |-> operation.link_type,
     source |-> operation.source, destination |-> operation.destination]

\* the directory made also in a dry run
PerformDryRunMakesDir(f, operation, dry_run) ==
    LET md == Makedirs(f, Dirname(operation.destination))
    IN  IF dry_run
        THEN [raised |-> FALSE, fs |-> md.fs,
              message |-> Message("Dry run: would create", operation)]
        ELSE [raised |-> ~md.ok, fs |-> md.fs,
              message |-> Message("Error creating", operation)]

\* lines 256-274: what one operation does: [raised, fs, message].
\* raised: an exception left the loop body (message is then never used).
Perform(f, operation, dry_run) ==
    LET source == operation.source
        destination == operation.destination
        link_type == operation.link_type
        dir_path == Dirname(destination)
    IN  IF dry_run
        THEN [raised |-> FALSE, fs |-> f,
              message |-> Message("Dry run: would create", operation)]
        ELSE LET md == Makedirs(f, dir_path)
             IN  IF ~md.ok
                 THEN [raised |-> TRUE, fs |-> md.fs,
                       message |-> Message("Error creating", operation)]
                 ELSE LET ln == IF link_type = "hardlink"
                                THEN Link(md.fs, source, destination)
                                ELSE Symlink(md.fs, source, destination)
                      IN  IF ln.ok
                          THEN [raised |-> FALSE, fs |-> ln.fs,
                                message |-> Message("Created", operation)]
                          ELSE [raised |-> FALSE, fs |-> ln.fs,
                                message |-> Message("Error creating", operation)]

\* `if log_file:` -- None and '' are both NoStr here
Truthy(log_file) == log_file # NoStr

\* the message both printed and logged
EmitToBoth(f, out, message, silent, log_file) ==
    [fs |-> IF Truthy(log_file)
            THEN [f EXCEPT !.log = Append(@, message), !.log_exists = TRUE]
            ELSE f,
     stdout |-> Append(out, message)]

\* lines 279-284: where the message goes: [fs, stdout]
Emit(f, out, message, silent, log_file) ==
    IF silent
    THEN IF Truthy(log_file)
         THEN [fs |-> [f EXCEPT !.log = Append(@, message), !.log_exists = TRUE],
               stdout |-> out]
         ELSE [fs |-> f, stdout |-> out]
    ELSE [fs |-> f, stdout |-> Append(out, message)]

\* the operation lists a caller may pass
OpA == [source |-> InA, destination |-> DestA, link_type |-> "hardlink"]
OpB == [source |-> InB, destination |-> DestB, link_type |-> "hardlink"]
OpC == [source |-> InC, destination |-> DestA, link_type |-> "hardlink"]
OpF == [source |-> InA, destination |-> DestUnderFile, link_type |-> "hardlink"]
OpS == [source |-> InB, destination |-> DestS, link_type |-> "symlink"]
OpPool == {OpA, OpB, OpC, OpF, OpS}

\* length of the list given to execute_operations
MaxOps == 3

OpLists == UNION {[1..k -> OpPool] : k \in 0..MaxOps}

LogFiles == {NoStr, LogPath}

Idle == [pc |-> "idle", operations |-> << >>, dry_run |-> FALSE,
         silent |-> FALSE, log_file |-> NoStr, i |-> 1, progress |-> 0,
         events |-> << >>, fs0 |-> FsInit(FALSE)]

\* no execute_operations worker has been started or has ended yet
NoLaunch == [started |-> FALSE, checkedId |-> 0, operations |-> << >>]
NoRun == [ended |-> FALSE, aborted |-> FALSE, done |-> 0, total |-> 0]

\* main.py lines 222-226, 545, 566, 572: the window as __init__ leaves it;
\* pc "closed": no window has been opened
NoWindow ==
    [pc |-> "closed", input_path |-> NoStr, output_path |-> NoStr,
     file_paths |-> << >>, current_operations |-> << >>, checkedId |-> 1,
     preview_enabled |-> FALSE, execute_enabled |-> FALSE, workers |-> {},
     status |-> "", message_box |-> "", launch |-> NoLaunch, run |-> NoRun]

\* compute_operations not called yet
NotComputing ==
    [pc |-> "idle", data_list |-> << >>, i |-> 1, renamed_files |-> {},
     processed_files |-> {}, operations |-> << >>, new_file_name |-> NoStr,
     new_file_path |-> NoStr, counter |-> CounterStart, checks |-> 0,
     renamed_at_call |-> {}, processed_at_call |-> {}, loops |-> << >>]

(***************************************************************************)
(* A planning session: repeated compute_operations calls on the same sets  *)
(***************************************************************************)
RECURSIVE SumLen(_)
SumLen(cs) == IF cs = << >> THEN 0 ELSE Len(Head(cs).data_list) + SumLen(Tail(cs))

NoPlan == [kind |-> "none", operations |-> << >>]

Init ==
    /\ renamed_files = {}
    /\ processed_files = {}
    /\ calls = << >>
    /\ plan = NoPlan
    /\ fs = FsInit(FALSE)
    /\ stdout = << >>
    /\ exec = Idle
    /\ sanitize = NotSanitized
    /\ compute = NotComputing
    /\ gui = NoWindow

CallComputeOperations ==
    /\ SumLen(calls) < MaxRecords
    /\ \E data_list \in DataLists(MaxRecords - SumLen(calls)) :
         LET r == ComputeOperations(data_list, OutRoot, renamed_files,
                                    processed_files)
         IN  /\ renamed_files' = r.renamed_files
             /\ processed_files' = r.processed_files
             /\ calls' = Append(calls,
                    [data_list |-> data_list, new_path |-> OutRoot,
                     renamed_at_call |-> renamed_files,
                     processed_at_call |-> processed_files,
                     steps |-> r.steps, operations |-> r.operations])
    /\ UNCHANGED <<plan, execVars, sanitize, compute, gui>>

Next == CallComputeOperations

Spec == Init /\ [][Next]_vars

(***************************************************************************)
(* One planning call of any of the three strategies; plan records the      *)
(* call and what it returned                                               *)
(***************************************************************************)
PlanByDate ==
    /\ plan = NoPlan
    /\ \E file_paths \in FileLists :
         \E getmtime \in [SeqRange(file_paths) -> ModTimes] :
            plan' = [kind |-> "date", input |-> file_paths, getmtime |-> getmtime,
                     operations |-> ProcessFilesByDate(file_paths, OutRoot, getmtime)]
    /\ UNCHANGED <<sessionVars, execVars, sanitize, compute, gui>>

PlanByType ==
    /\ plan = NoPlan
    /\ \E file_paths \in FileLists :
         plan' = [kind |-> "type", input |-> file_paths,
                  operations |-> ProcessFilesByType(file_paths, OutRoot)]
    /\ UNCHANGED <<sessionVars, execVars, sanitize, compute, gui>>

\* sets a caller may hold when it calls compute_operations
RenamedSets ==
    SUBSET {PathJoin(PathJoin(OutRoot, FolderDocs), PlainName(StemReport, SrcA)),
            PathJoin(PathJoin(OutRoot, FolderDocs), PlainName(StemReport1, SrcA))}
ProcessedSets == {{}, {SrcA}}

PlanByMetadata ==
    /\ plan = NoPlan
    /\ \E data_list \in DataLists(MaxPaths) :
         \E renamed \in RenamedSets : \E processed \in ProcessedSets :
            plan' = [kind |-> "metadata", input |-> data_list,
                     renamed |-> renamed, processed |-> processed,
                     operations |-> ComputeOperations(data_list, OutRoot,
                                        renamed, processed).operations]
    /\ UNCHANGED <<sessionVars, execVars, sanitize, compute, gui>>

NextPlanners == PlanByDate \/ PlanByType \/ PlanByMetadata

SpecPlanners == Init /\ [][NextPlanners]_vars

(***************************************************************************)
(* One execute_operations call on a filesystem                             *)
(***************************************************************************)
InitExec ==
    /\ renamed_files = {}
    /\ processed_files = {}
    /\ calls = << >>
    /\ plan = NoPlan
    /\ \E f_blocks, dest_exists \in BOOLEAN :
         fs = IF dest_exists THEN FsWithDest(FsInit(f_blocks)) ELSE FsInit(f_blocks)
    /\ stdout = << >>
    /\ exec = Idle
    /\ sanitize = NotSanitized
    /\ compute = NotComputing
    /\ gui = NoWindow

\* lines 244-254: the call and its arguments
ExecCall ==
    /\ exec.pc = "idle"
    /\ \E operations \in OpLists : \E dry_run, silent \in BOOLEAN :
         \E log_file \in LogFiles :
            exec' = [pc |-> "running", operations |-> operations,
                     dry_run |-> dry_run, silent |-> silent,
                     log_file |-> log_file, i |-> 1, progress |-> 0,
                     events |-> << >>, fs0 |-> fs]
    /\ UNCHANGED <<sessionVars, plan, fs, stdout, sanitize, compute, gui>>

\* the loop taking the operations last first
NextOperationBackwards(operations, i) ==
    [operation |-> operations[Len(operations) + 1 - i], operations |-> operations]

\* the loop blanking the source of the record it has taken
NextOperationConsuming(operations, i) ==
    [operation |-> operations[i],
     operations |-> [operations EXCEPT ![i].source = NoStr]]

\* line 255: `for operation in operations` takes operation i and leaves the
\* list as it is: [operation, operations]
NextOperation(operations, i) ==
    [operation |-> operations[i], operations |-> operations]

\* lines 255-284: one iteration of the loop.  An exception of the body ends
\* the call (pc = "raised"); otherwise progress advances and the message is
\* emitted.  events records, per operation, what happened.
ExecOperation ==
    /\ exec.pc = "running"
    /\ exec.i <= Len(exec.operations)
    /\ LET nx == NextOperation(exec.operations, exec.i)
           r == Perform(fs, nx.operation, exec.dry_run)
           out == Emit(r.fs, stdout, r.message, exec.silent, exec.log_file)
       IN  IF r.raised
           THEN /\ fs' = r.fs
                /\ stdout' = stdout
                /\ exec' = [exec EXCEPT !.pc = "raised",
                               !.operations = nx.operations,
                               !.events = Append(@, [index |-> exec.i,
                                   raised |-> TRUE, message |-> r.message,
                                   fs_before |-> fs, fs_after |-> r.fs])]
           ELSE /\ fs' = out.fs
                /\ stdout' = out.stdout
                /\ exec' = [exec EXCEPT !.i = @ + 1, !.progress = @ + 1,
                               !.operations = nx.operations,
                               !.events = Append(@, [index |-> exec.i,
                                   raised |-> FALSE, message |-> r.message,
                                   fs_before |-> fs, fs_after |-> out.fs])]
    /\ UNCHANGED <<sessionVars, plan, sanitize, compute, gui>>

\* the loop is exhausted and the call returns
ExecReturn ==
    /\ exec.pc = "running"
    /\ exec.i > Len(exec.operations)
    /\ exec' = [exec EXCEPT !.pc = "returned"]
    /\ UNCHANGED <<sessionVars, plan, fs, stdout, sanitize, compute, gui>>

NextExec == ExecCall \/ ExecOperation \/ ExecReturn

SpecExec == InitExec /\ [][NextExec]_vars

(***************************************************************************)
(* One sanitize_filename call                                              *)
(***************************************************************************)
\* lines 6-33: the call with its arguments and the value it returns
CallSanitizeFilename ==
    /\ ~sanitize.called
    /\ \E name \in Names : \E max_length \in MaxLengths :
         \E max_words \in MaxWordsChoices :
            sanitize' = [called |-> TRUE, name |-> name,
                          max_length |-> max_length, max_words |-> max_words,
                          result |-> SanitizeFilename(name, max_length, max_words)]
    /\ UNCHANGED <<sessionVars, plan, execVars, compute, gui>>

NextSanitize == CallSanitizeFilename

SpecSanitize == Init /\ [][NextSanitize]_vars

(***************************************************************************)
(* One compute_operations call taken statement by statement: compute is    *)
(* its frame.  pc "for" is the head of the loop over data_list (line 206), *)
(* pc "while" the test of the collision loop (line 223).  checks counts    *)
(* the membership tests of line 223 made for the current record; loops     *)
(* keeps, per record that reached the loop, the set it was tested against  *)
(* and the number of tests.                                                *)
(***************************************************************************)
\* largest counter the collision loop is followed to
MaxCounter == 6

\* the records given to the call followed step by step: two sources with
\* the same extension, under either stem
LoopRecords == {r \in Records : r.file_path \in {SrcA, SrcB}}

\* lines 203-205: the call and its arguments
ComputeCall ==
    /\ compute.pc = "idle"
    /\ \E data_list \in UNION {[1..k -> LoopRecords] : k \in 1..MaxPaths} :
         \E renamed \in RenamedSets : \E processed \in ProcessedSets :
            compute' = [NotComputing EXCEPT
                           !.pc = "for", !.data_list = data_list,
                           !.renamed_files = renamed,
                           !.processed_files = processed,
                           !.renamed_at_call = renamed,
                           !.processed_at_call = processed]
    /\ UNCHANGED <<sessionVars, plan, execVars, sanitize, gui>>

\* lines 206-221: the next record: skipped when its source was seen, else
\* marked processed and given its plain name before the loop is entered
ComputeRecord ==
    /\ compute.pc = "for"
    /\ compute.i <= Len(compute.data_list)
    /\ LET data == compute.data_list[compute.i]
           file_path == data.file_path
           new_file_name == PlainName(data.filename, file_path)
           dir_path == PathJoin(OutRoot, data.foldername)
       IN  IF AlreadyProcessed(file_path, compute.processed_files)
           THEN compute' = [compute EXCEPT !.i = @ + 1]
           ELSE compute' = [compute EXCEPT
                    !.pc = "while",
                    !.processed_files = AddProcessed(@, file_path),
                    !.new_file_name = new_file_name,
                    !.new_file_path = PathJoin(dir_path, new_file_name),
                    !.counter = CounterStart,
                    !.checks = 0]
    /\ UNCHANGED <<sessionVars, plan, execVars, sanitize, gui>>

\* lines 223-240: one test of `new_file_path in renamed_files`.  A hit runs
\* the loop body (lines 224-226) and comes back to the test; a miss leaves
\* the loop and runs the rest of the record's pass (lines 228-240).
ComputeWhile ==
    /\ compute.pc = "while"
    /\ compute.counter <= MaxCounter
    /\ LET data == compute.data_list[compute.i]
           dir_path == PathJoin(OutRoot, data.foldername)
       IN  IF compute.new_file_path \in compute.renamed_files
           THEN LET name == SuffixedName(data.filename, compute.counter,
                                         data.file_path)
                IN  compute' = [compute EXCEPT
                        !.checks = @ + 1,
                        !.new_file_name = name,
                        !.new_file_path = PathJoin(dir_path, name),
                        !.counter = @ + 1]
           ELSE compute' = [compute EXCEPT
                    !.pc = "for",
                    !.i = @ + 1,
                    !.checks = @ + 1,
                    !.operations = Append(@,
                        Operation(data.file_path, compute.new_file_path,
                                  data.foldername, compute.new_file_name)),
                    !.renamed_files = AddRenamed(@, compute.new_file_path),
                    !.loops = Append(@,
                        [renamed |-> compute.renamed_files,
                         checks |-> compute.checks + 1])]
    /\ UNCHANGED <<sessionVars, plan, execVars, sanitize, gui>>

\* line 242: return operations
ComputeReturn ==
    /\ compute.pc = "for"
    /\ compute.i > Len(compute.data_list)
    /\ compute' = [compute EXCEPT !.pc = "returned"]
    /\ UNCHANGED <<sessionVars, plan, execVars, sanitize, gui>>

NextCompute == ComputeCall \/ ComputeRecord \/ ComputeWhile \/ ComputeReturn

\* the call runs in one thread that is never suspended for good: a
\* statement that can be executed is executed
SpecCompute == Init /\ [][NextCompute]_vars /\ WF_vars(NextCompute)

(***************************************************************************)
(* The window (main.py, FileOrganizerApp) and its worker threads.  gui     *)
(* holds the window's fields, the state of the two buttons, the worker     *)
(* threads that are running (each with the arguments it was built with),   *)
(* the last status text and the last message box.  launch and run record   *)
(* the last execute_operations worker: what it was started on and how it   *)
(* ended.  A handler runs to its end in the GUI thread; a worker acts on   *)
(* the state when its finished_signal is delivered to the connected slot.  *)
(***************************************************************************)
OrganizedByDate == <<"o", "r", "g", "a", "n", "i", "z", "e", "d", "_", "b", "y", "_", "d", "a", "t", "e">>
OrganizedByType == <<"o", "r", "g", "a", "n", "i", "z", "e", "d", "_", "b", "y", "_", "t", "y", "p", "e">>
AnalyticsFile == <<"/", "i", "/", "f", "i", "l", "e", "_", "a", "n", "a", "l", "y", "t", "i", "c", "s", ".", "t", "x", "t">>
YearDir == PathJoin(OutRoot, ToStr(2024))

\* worker threads followed at the same time
MaxWorkers == 1

\* what collect_file_paths finds under /i
DirListing == <<PathJpg, PathZip>>

\* os.path.getmtime of the files under /i
GuiModTimes == [p \in SeqRange(DirListing) |-> [year |-> 2024, month |-> 1]]

\* the filesystem the window works on: /i holds the two files; with
\* year_blocks, /o exists and /o/2024 is a regular file
FsGui(year_blocks) ==
    [dirs |-> {RootDir, InDir} \cup (IF year_blocks THEN {OutRoot} ELSE {}),
     files |-> (PathJpg :> 1) @@ (PathZip :> 2)
                  @@ (IF year_blocks THEN (YearDir :> 4) ELSE << >>),
     log_exists |-> FALSE,
     log |-> << >>]

\* a WorkerThread: task_type and args
Worker(task, file_paths, output_path, operations) ==
    [task |-> task, file_paths |-> file_paths, output_path |-> output_path,
     operations |-> operations]

\* lines 86-170: generate_file_analytics returns lines of text
AnalyticsResults(file_paths) ==
    <<[text |-> <<"T", "o", "t", "a", "l", " ", "f", "i", "l", "e", "s", ":", " ">>
                \o ToStr(Len(file_paths))]>>

\* operation['source'] can be read: the element is an operation record
IsOperation(op) == "source" \in DOMAIN op

\* lines 743-751: update_buttons_state
UpdateButtonsState(g) ==
    [g EXCEPT
        !.preview_enabled = g.input_path # NoStr,
        !.execute_enabled =
            IF g.checkedId = 3
            THEN g.input_path # NoStr /\ g.current_operations # << >>
            ELSE /\ g.input_path # NoStr
                 /\ g.output_path # NoStr
                 /\ g.current_operations # << >>]

\* self.worker = WorkerThread(...); self.worker.start().  When a worker is
\* still running, the assignment drops the only reference to it: the old
\* thread either runs on and delivers its result, or its destruction while
\* running ends the program.  The set of windows that can follow.
StartWorker(g, w) ==
    IF g.workers = {}
    THEN {[g EXCEPT !.workers = {w}]}
    ELSE {[g EXCEPT !.workers = @ \cup {w}], [g EXCEPT !.pc = "aborted"]}

RECURSIVE RunBatch(_, _, _)
\* lines 63-84: the execute_operations task, from operation i on:
\* execute_operations([op], dry_run=False, silent=True) for each operation;
\* an exception leaves the loop for the except branch.
\* [fs, aborted, done]
RunBatch(f, operations, i) ==
    IF i > Len(operations) THEN [fs |-> f, aborted |-> FALSE, done |-> i - 1]
    ELSE IF ~IsOperation(operations[i])
         THEN [fs |-> f, aborted |-> TRUE, done |-> i - 1]
         ELSE LET r == Perform(f, operations[i], FALSE)
              IN  IF r.raised
                  THEN [fs |-> r.fs, aborted |-> TRUE, done |-> i - 1]
                  ELSE RunBatch(Emit(r.fs, << >>, r.message, TRUE, NoStr).fs,
                                operations, i + 1)

InitGui ==
    /\ renamed_files = {}
    /\ processed_files = {}
    /\ calls = << >>
    /\ plan = NoPlan
    /\ \E year_blocks \in BOOLEAN : fs = FsGui(year_blocks)
    /\ stdout = << >>
    /\ exec = Idle
    /\ sanitize = NotSanitized
    /\ compute = NotComputing
    /\ gui = [NoWindow EXCEPT !.pc = "open"]

\* lines 720-733: browse_input_directory, a directory chosen
BrowseInputDirectory ==
    /\ gui.pc = "open"
    /\ Cardinality(gui.workers) < MaxWorkers
    /\ gui' \in StartWorker(
                   UpdateButtonsState([gui EXCEPT !.input_path = InDir]),
                   Worker("collect_files", << >>, NoStr, << >>))
    /\ UNCHANGED <<sessionVars, plan, execVars, sanitize, compute>>

\* lines 735-741: browse_output_directory, a directory chosen
BrowseOutputDirectory ==
    /\ gui.pc = "open"
    /\ gui' = UpdateButtonsState([gui EXCEPT !.output_path = OutRoot])
    /\ UNCHANGED <<sessionVars, plan, execVars, sanitize, compute>>

\* lines 753-766: on_operation_changed, after the click has checked a button
OnOperationChanged ==
    /\ gui.pc = "open"
    /\ \E id \in 1..3 :
         gui' = UpdateButtonsState(
                    [gui EXCEPT !.checkedId = id, !.current_operations = << >>])
    /\ UNCHANGED <<sessionVars, plan, execVars, sanitize, compute>>

\* lines 774-811: preview_operation
PreviewOperation ==
    /\ gui.pc = "open"
    /\ gui.preview_enabled
    /\ Cardinality(gui.workers) < MaxWorkers
    /\ IF gui.file_paths = << >>
       THEN gui' = [gui EXCEPT !.message_box =
                       "No files found in the input directory."]
       ELSE LET operation_type == gui.checkedId
                default == IF operation_type = 1
                           THEN PathJoin(gui.input_path, OrganizedByDate)
                           ELSE PathJoin(gui.input_path, OrganizedByType)
                output_path == IF gui.output_path = NoStr THEN default
                               ELSE gui.output_path
            IN  IF operation_type = 3
                THEN gui' \in StartWorker(gui,
                         Worker("analytics", gui.file_paths, NoStr, << >>))
                ELSE gui' \in StartWorker(
                         [gui EXCEPT !.output_path = output_path],
                         Worker(IF operation_type = 1 THEN "process_by_date"
                                ELSE "process_by_type",
                                gui.file_paths, output_path, << >>))
    /\ UNCHANGED <<sessionVars, plan, execVars, sanitize, compute>>

\* lines 43-47 and 768-772: the collect_files task and on_files_collected
CollectFinished ==
    /\ gui.pc = "open"
    /\ \E w \in gui.workers :
         /\ w.task = "collect_files"
         /\ gui' = [gui EXCEPT !.workers = @ \ {w},
                               !.file_paths = DirListing,
                               !.status = "Found files."]
    /\ UNCHANGED <<sessionVars, plan, execVars, sanitize, compute>>

\* lines 49-61 and 813-834: a planning task and on_operations_generated
PlanFinished ==
    /\ gui.pc = "open"
    /\ \E w \in gui.workers :
         /\ w.task \in {"process_by_date", "process_by_type"}
         /\ LET operations ==
                    IF w.task = "process_by_date"
                    THEN ProcessFilesByDate(w.file_paths, w.output_path,
                                            GuiModTimes)
                    ELSE ProcessFilesByType(w.file_paths, w.output_path)
            IN  gui' = UpdateButtonsState(
                    [gui EXCEPT !.workers = @ \ {w},
                                !.current_operations = operations,
                                !.status = "operations prepared."])
    /\ UNCHANGED <<sessionVars, plan, execVars, sanitize, compute>>

\* lines 76-81 and 836-847: the analytics task and on_analytics_generated
AnalyticsFinished ==
    /\ gui.pc = "open"
    /\ \E w \in gui.workers :
         /\ w.task = "analytics"
         /\ gui' = UpdateButtonsState(
                [gui EXCEPT !.workers = @ \ {w},
                            !.current_operations = AnalyticsResults(w.file_paths),
                            !.status = "Analytics completed."])
    /\ UNCHANGED <<sessionVars, plan, execVars, sanitize, compute>>

\* lines 919-931: execute_operation with Generate Analytics checked: the
\* results are saved to the chosen file, or the dialog is cancelled
SaveAnalytics ==
    /\ gui.pc = "open"
    /\ gui.execute_enabled
    /\ gui.checkedId = 3
    /\ gui.current_operations # << >>
    /\ \E chosen \in BOOLEAN :
         IF ~chosen THEN UNCHANGED <<fs, gui>>
         ELSE IF \A k \in 1..Len(gui.current_operations) :
                    ~IsOperation(gui.current_operations[k])
              THEN /\ fs' = [fs EXCEPT !.files = (AnalyticsFile :> 7) @@ @]
                   /\ gui' = [gui EXCEPT !.message_box = "Analytics saved"]
              ELSE /\ fs' = [fs EXCEPT !.files = (AnalyticsFile :> 0) @@ @]
                   /\ gui' = [gui EXCEPT !.message_box =
                                 "Failed to save analytics"]
    /\ UNCHANGED <<sessionVars, plan, stdout, exec, sanitize, compute>>

\* lines 932-948: execute_operation with By Date or By Type checked, the
\* question answered Yes: the output directory is made and the worker is
\* started on current_operations
ExecuteOperation ==
    /\ gui.pc = "open"
    /\ gui.execute_enabled
    /\ gui.checkedId # 3
    /\ Cardinality(gui.workers) < MaxWorkers
    /\ LET md == Makedirs(fs, gui.output_path)
       IN  IF ~md.ok
           THEN /\ fs' = md.fs
                /\ gui' = [gui EXCEPT !.pc = "aborted"]
           ELSE /\ fs' = md.fs
                /\ gui' \in StartWorker(
                       [gui EXCEPT !.launch =
                           [started |-> TRUE, checkedId |-> gui.checkedId,
                            operations |-> gui.current_operations]],
                       Worker("execute_operations", << >>, NoStr,
                              gui.current_operations))
    /\ UNCHANGED <<sessionVars, plan, stdout, exec, sanitize, compute>>

\* lines 950-954: on_operations_completed(_), whatever the worker emitted
OnOperationsCompleted(g) ==
    [g EXCEPT !.message_box = "File organization completed successfully!",
              !.status = "Operation completed."]

\* lines 63-74, 82-84 and 950-954: the execute_operations task and the slot
\* its finished_signal is connected to
ExecuteFinished ==
    /\ gui.pc = "open"
    /\ \E w \in gui.workers :
         /\ w.task = "execute_operations"
         /\ LET b == RunBatch(fs, w.operations, 1)
            IN  /\ fs' = b.fs
                /\ gui' = OnOperationsCompleted(
                       [gui EXCEPT !.workers = @ \ {w},
                                   !.run = [ended |-> TRUE,
                                            aborted |-> b.aborted,
                                            done |-> b.done,
                                            total |-> Len(w.operations)]])
    /\ UNCHANGED <<sessionVars, plan, stdout, exec, sanitize, compute>>

NextGui ==
    \/ BrowseInputDirectory \/ BrowseOutputDirectory \/ OnOperationChanged
    \/ PreviewOperation \/ CollectFinished \/ PlanFinished
    \/ AnalyticsFinished \/ SaveAnalytics \/ ExecuteOperation
    \/ ExecuteFinished

SpecGui == InitGui /\ [][NextGui]_vars

(***************************************************************************)
(* Properties of compute_operations sessions                               *)
(***************************************************************************)
\* <<c, i>>: the i-th record examined by the c-th call
StepIds == {id \in (1..Len(calls)) \X (1..MaxRecords + 1) :
               id[2] <= Len(calls[id[1]].steps)}
Step(id) == calls[id[1]].steps[id[2]]
EmittedSteps == {id \in StepIds : ~Step(id).skipped}

\* <<c, i>>: the i-th operation returned by the c-th call
OpIds == {id \in (1..Len(calls)) \X (1..MaxRecords + 1) :
             id[2] <= Len(calls[id[1]].operations)}
Op(id) == calls[id[1]].operations[id[2]]

\* new_path/foldername/filename<ext of the source>
ExpectedPlain(data, new_path) ==
    new_path \o <<"/">> \o data.foldername \o <<"/">> \o data.filename
        \o SplitExt(data.file_path)[2]

\* new_path/foldername/filename_N<ext of the source>
ExpectedSuffixed(data, new_path, n) ==
    new_path \o <<"/">> \o data.foldername \o <<"/">> \o data.filename
        \o <<"_">> \o ToStr(n) \o SplitExt(data.file_path)[2]

\* C1: across the calls of a session that share renamed_files and
\* processed_files, the destinations of all emitted operations are pairwise
\* distinct, and each was absent from renamed_files when it was allocated.
C1_DestinationsUniqueInSession ==
    /\ \A a, b \in OpIds : a # b => Op(a).destination # Op(b).destination
    /\ \A id \in EmittedSteps :
          Step(id).operation.destination \notin Step(id).renamed_before

\* a later call resolved a collision with an allocation of an earlier call
C1_Witness ==
    \E id \in EmittedSteps :
        /\ id[1] >= 2
        /\ ExpectedPlain(Step(id).data, calls[id[1]].new_path)
               \in calls[id[1]].renamed_at_call
        /\ Cardinality(OpIds) >= 3

\* C3: each non-skipped record gets new_path/foldername/filename+ext when
\* that path is not in renamed_files, and otherwise filename_N+ext for the
\* smallest N >= 1 whose path is not in renamed_files; the suffix stands
\* before the extension, which is the source's.
C3_SmallestFreeSuffix ==
    \A id \in EmittedSteps :
        LET s == Step(id)
            np == calls[id[1]].new_path
            dest == s.operation.destination
        IN  IF ExpectedPlain(s.data, np) \notin s.renamed_before
            THEN dest = ExpectedPlain(s.data, np)
            ELSE \E n \in 1..(Cardinality(s.renamed_before) + 1) :
                    /\ dest = ExpectedSuffixed(s.data, np, n)
                    /\ dest \notin s.renamed_before
                    /\ \A m \in 1..(n - 1) :
                          ExpectedSuffixed(s.data, np, m) \in s.renamed_before

\* a record that had to skip _1 and took _2
C3_Witness ==
    \E id \in EmittedSteps :
        LET s == Step(id)
            np == calls[id[1]].new_path
        IN  /\ ExpectedPlain(s.data, np) \in s.renamed_before
            /\ ExpectedSuffixed(s.data, np, 1) \in s.renamed_before
            /\ s.operation.destination = ExpectedSuffixed(s.data, np, 2)

\* the first call of a session (both sets empty) got exactly two records
\* with distinct sources, the same foldername and the same filename
TwoSameStem ==
    /\ Len(calls) >= 1
    /\ calls[1].renamed_at_call = {} /\ calls[1].processed_at_call = {}
    /\ Len(calls[1].data_list) = 2
    /\ calls[1].data_list[1].file_path # calls[1].data_list[2].file_path
    /\ calls[1].data_list[1].foldername = calls[1].data_list[2].foldername
    /\ calls[1].data_list[1].filename = calls[1].data_list[2].filename

\* C4 as stated: the destinations are stem+ext1 and stem_1+ext2 for every
\* pair of source extensions.
C4_AsStated ==
    TwoSameStem =>
        LET c == calls[1]
        IN  /\ Len(c.operations) = 2
            /\ c.operations[1].destination = ExpectedPlain(c.data_list[1], c.new_path)
            /\ c.operations[2].destination
                   = ExpectedSuffixed(c.data_list[2], c.new_path, 1)

\* C4 (amended): the first destination is stem+ext1; the second is
\* stem_1+ext2 when both sources have the same extension, and stem+ext2
\* (no suffix) when the extensions differ.
C4_SecondSuffixedWhenSameExt ==
    TwoSameStem =>
        LET c == calls[1]
            ext1 == SplitExt(c.data_list[1].file_path)[2]
            ext2 == SplitExt(c.data_list[2].file_path)[2]
        IN  /\ Len(c.operations) = 2
            /\ c.operations[1].destination = ExpectedPlain(c.data_list[1], c.new_path)
            /\ c.operations[2].destination
                   = IF ext1 = ext2
                     THEN ExpectedSuffixed(c.data_list[2], c.new_path, 1)
                     ELSE ExpectedPlain(c.data_list[2], c.new_path)

\* two sources with the same extension: the second one got _1
C4_Witness ==
    /\ TwoSameStem
    /\ SplitExt(calls[1].data_list[1].file_path)[2]
           = SplitExt(calls[1].data_list[2].file_path)[2]
    /\ SplitExt(calls[1].data_list[1].file_path)[2] # NoStr
    /\ calls[1].operations[2].new_file_name
           = calls[1].data_list[2].filename \o <<"_", "1">>
                 \o SplitExt(calls[1].data_list[2].file_path)[2]

\* C5: in a later call on the same renamed_files, a record whose candidate
\* and variants _1 .. _k were allocated by earlier calls (and whose _(k+1)
\* is free) receives _(k+1); the allocations of the earlier calls are all in
\* the set the call starts from, and its destination repeats none of them.
C5_NumberingContinuesAcrossCalls ==
    \A id \in EmittedSteps :
        LET s == Step(id)
            c == calls[id[1]]
        IN  id[1] >= 2 =>
              /\ \A e \in OpIds :
                    e[1] < id[1] => Op(e).destination \in c.renamed_at_call
              /\ s.operation.destination \notin c.renamed_at_call
              /\ \A k \in 0..MaxRecords :
                    ( /\ ExpectedPlain(s.data, c.new_path) \in c.renamed_at_call
                      /\ \A m \in 1..k :
                            ExpectedSuffixed(s.data, c.new_path, m) \in c.renamed_at_call
                      /\ ExpectedSuffixed(s.data, c.new_path, k + 1)
                             \notin s.renamed_before )
                    => s.operation.destination
                           = ExpectedSuffixed(s.data, c.new_path, k + 1)

\* a second call continued after _1 of the first call with _2
C5_Witness ==
    \E id \in EmittedSteps :
        LET s == Step(id)
            c == calls[id[1]]
        IN  /\ id[1] >= 2
            /\ ExpectedPlain(s.data, c.new_path) \in c.renamed_at_call
            /\ ExpectedSuffixed(s.data, c.new_path, 1) \in c.renamed_at_call
            /\ s.operation.destination = ExpectedSuffixed(s.data, c.new_path, 2)

\* C6: a record whose file_path is already in processed_files yields no
\* operation and allocates nothing, whatever its foldername and filename;
\* so each source path appears in at most one operation of the session.
C6_ProcessedSourcesSkipped ==
    /\ \A id \in StepIds :
          Step(id).data.file_path \in Step(id).processed_before
              => /\ Step(id).skipped
                 /\ Step(id).renamed_after = Step(id).renamed_before
    /\ \A c \in 1..Len(calls) :
          Len(calls[c].operations)
              = Cardinality({id \in EmittedSteps : id[1] = c})
    /\ \A a, b \in OpIds : a # b => Op(a).source # Op(b).source

\* a record was skipped in a later call although its filename differs from
\* the one its source was first planned with
C6_Witness ==
    \E id \in StepIds : \E first \in EmittedSteps :
        /\ Step(id).skipped
        /\ first[1] < id[1]
        /\ Step(first).data.file_path = Step(id).data.file_path
        /\ Step(first).data.filename # Step(id).data.filename

(***************************************************************************)
(* Properties of single planning calls                                     *)
(***************************************************************************)
\* C2: whatever the strategy and the input list, the destinations of the
\* operations returned by one planning call are pairwise distinct.
C2_DestinationsUniquePerCall ==
    \A i, j \in 1..Len(plan.operations) :
        i # j => plan.operations[i].destination # plan.operations[j].destination

(***************************************************************************)
(* Properties of execute_operations                                        *)
(***************************************************************************)
CallEnded == exec.pc \in {"returned", "raised"}

\* the operation of event k was attempted and its link action failed
LinkFailed(k) ==
    /\ ~exec.events[k].raised
    /\ exec.events[k].message.text = "Error creating"

\* the messages of the operations that reached the end of the loop body
Messages ==
    LET done == SelectSeq(exec.events, LAMBDA e : ~e.raised)
    IN  [k \in 1..Len(done) |-> done[k].message]

\* C7: with dry_run false, when the link action of operation k fails, every
\* operation after k is still attempted and gets its own message: a failed
\* operation never stops the batch.
C7_BatchContinuesAfterFailure ==
    (CallEnded /\ ~exec.dry_run) =>
        \A k \in 1..Len(exec.events) :
            LinkFailed(k) =>
                \A j \in (k + 1)..Len(exec.operations) :
                    /\ j <= Len(exec.events)
                    /\ ~exec.events[j].raised

\* C8: no filesystem error raised while an operation is processed leaves
\* execute_operations: errors of the directory creation and of the link
\* action alike become the operation's message and the loop goes on.
C8_NoErrorPropagates ==
    /\ exec.pc # "raised"
    /\ \A k \in 1..Len(exec.events) : ~exec.events[k].raised

\* every operation handled so far produced its dry-run message
DryRunMessages ==
    /\ Len(exec.events) = exec.i - 1
    /\ \A k \in 1..Len(exec.events) :
          /\ ~exec.events[k].raised
          /\ exec.events[k].message
                 = Message("Dry run: would create", exec.operations[k])
    /\ exec.pc = "returned" => Len(exec.events) = Len(exec.operations)

\* C9 as stated: a dry run changes nothing in the filesystem (no directory,
\* no link, no file written) whatever silent and log_file are, and produces
\* one descriptive message per operation.
C9_AsStated ==
    (exec.pc # "idle" /\ exec.dry_run) => (fs = exec.fs0 /\ DryRunMessages)

\* C9 (amended): a dry run creates no directory and no link and produces
\* one descriptive message per operation; the only file it writes is the
\* log file, to which it appends the messages when silent is true and a
\* log_file is given.
C9_DryRunWritesOnlyLog ==
    (exec.pc # "idle" /\ exec.dry_run) =>
        /\ fs.dirs = exec.fs0.dirs
        /\ fs.files = exec.fs0.files
        /\ IF exec.silent /\ Truthy(exec.log_file)
           THEN /\ fs.log = exec.fs0.log \o Messages
                /\ fs.log_exists = (exec.fs0.log_exists \/ Len(exec.events) > 0)
           ELSE /\ fs.log = exec.fs0.log
                /\ fs.log_exists = exec.fs0.log_exists
        /\ DryRunMessages

\* a silent dry run with a log file returned after several operations
C9_Witness ==
    /\ exec.pc = "returned"
    /\ exec.dry_run /\ exec.silent /\ Truthy(exec.log_file)
    /\ Len(exec.operations) >= 2
    /\ Len(fs.log) = Len(exec.operations)
    /\ fs.dirs = exec.fs0.dirs

\* C10: a message never goes to both sinks.  With silent it is not printed,
\* and it is appended to the log file when one is given; without silent it
\* is printed and the log file is left alone even if one is given.
C10_SinksExclusive ==
    exec.pc # "idle" =>
        /\ stdout = << >> \/ fs.log = exec.fs0.log
        /\ IF exec.silent
           THEN /\ stdout = << >>
                /\ Truthy(exec.log_file) => fs.log = exec.fs0.log \o Messages
           ELSE /\ stdout = Messages
                /\ fs.log = exec.fs0.log
                /\ fs.log_exists = exec.fs0.log_exists

\* a call that is not silent but was given a log file printed the messages
\* of a real run, one of them an error
C10_Witness ==
    /\ exec.pc = "returned"
    /\ ~exec.silent /\ Truthy(exec.log_file) /\ ~exec.dry_run
    /\ Len(stdout) >= 2
    /\ \E k \in 1..Len(stdout) : stdout[k].text = "Error creating"
    /\ fs.log = << >>

\* the message is about this operation
Describes(message, operation) ==
    /\ message.source = operation.source
    /\ message.destination = operation.destination
    /\ message.link_type = operation.link_type

\* C11: the operations are processed strictly in the order of the input
\* list, one at a time: the k-th operation processed is the k-th of the
\* list, its action works on the filesystem its predecessor left (action and
\* message included), the messages reach their sink in that order, and a
\* call that returns has processed all of them.
C11_InputOrder ==
    exec.pc # "idle" =>
        /\ Len(exec.events) <= Len(exec.operations)
        /\ \A k \in 1..Len(exec.events) :
              /\ exec.events[k].index = k
              /\ Describes(exec.events[k].message, exec.operations[k])
              /\ exec.events[k].fs_before
                    = IF k = 1 THEN exec.fs0 ELSE exec.events[k - 1].fs_after
              /\ exec.events[k].raised => k = Len(exec.events)
        /\ fs = IF exec.events = << >> THEN exec.fs0
                ELSE exec.events[Len(exec.events)].fs_after
        /\ \A k \in 1..Len(stdout) : Describes(stdout[k], exec.operations[k])
        /\ \A k \in 1..Len(fs.log) : Describes(fs.log[k], exec.operations[k])
        /\ exec.pc = "returned" => Len(exec.events) = Len(exec.operations)

\* OpA then OpC, both for /o/d/a: the first created it, so the second failed
C11_Witness ==
    /\ exec.pc = "returned"
    /\ ~exec.dry_run /\ ~exec.silent
    /\ Len(exec.operations) = MaxOps
    /\ exec.operations[1] = OpA /\ exec.operations[2] = OpC
    /\ ~FsExists(exec.fs0, DestA)
    /\ stdout[1].text = "Created" /\ stdout[2].text = "Error creating"
    /\ Len(stdout) = MaxOps

\* C12: the progress counter is advanced exactly once per operation handled,
\* after its action, whether that succeeded, failed or was a dry run; it
\* equals the number of operations when the call returns.
C12_ProgressOncePerOperation ==
    /\ exec.progress = Len(exec.events)
    /\ exec.pc = "returned" => exec.progress = Len(exec.operations)

\* operation k of the call found its destination already there
DestinationExisted(k) ==
    FsExists(exec.events[k].fs_before, exec.operations[k].destination)

\* operation k was reported as an error, it left every file and directory
\* as it was, and the call went on to the next operation
ErrorAndGoesOn(k) ==
    /\ ~exec.events[k].raised
    /\ exec.events[k].message = Message("Error creating", exec.operations[k])
    /\ exec.events[k].fs_after.files = exec.events[k].fs_before.files
    /\ exec.events[k].fs_after.dirs = exec.events[k].fs_before.dirs
    /\ (CallEnded /\ k < Len(exec.operations)) => k < Len(exec.events)

\* C18 as stated: an operation whose destination already exists when it is
\* reached is reported as an error, the destination is left unchanged, and
\* execution continues.
C18_AsStated ==
    \A k \in 1..Len(exec.events) : DestinationExisted(k) => ErrorAndGoesOn(k)

\* C18 (amended): with dry_run false, an operation whose destination already
\* exists when it is reached (also when an earlier operation of the batch
\* created it) is reported as an error, the destination is left unchanged,
\* and execution continues.
C18_ExistingDestinationIsError ==
    ~exec.dry_run =>
        \A k \in 1..Len(exec.events) : DestinationExisted(k) => ErrorAndGoesOn(k)

\* the destination was created by operation 1 of the batch, operation 2
\* found it, and operation 3 was processed after that
C18_Witness ==
    /\ CallEnded /\ ~exec.dry_run
    /\ Len(exec.events) >= 3
    /\ ~FsExists(exec.fs0, exec.operations[2].destination)
    /\ DestinationExisted(2)
    /\ exec.events[2].message.text = "Error creating"
    /\ fs.files[DestA] = exec.fs0.files[InA]

\* C19: execute_operations only reads the operations: from the call on, the
\* list and its records stay what the caller passed.
C19_OperationsNotMutated ==
    [][exec.pc # "idle" => exec'.operations = exec.operations]_vars

\* a real run returned after a success and a failure, the list still there
C19_Witness ==
    /\ exec.pc = "returned" /\ ~exec.dry_run
    /\ Len(exec.operations) >= 2
    /\ exec.operations[1] = OpA
    /\ exec.events[1].message.text = "Created"
    /\ \E k \in 1..Len(exec.events) : exec.events[k].message.text = "Error creating"

(***************************************************************************)
(* Properties of process_files_by_type and process_files_by_date           *)
(***************************************************************************)
\* the basename of the path starts with a dot: a dot that opens the path or
\* follows a separator, with no separator after it
StartsWithDot(p) ==
    \E i \in 1..Len(p) :
        /\ p[i] = "."
        /\ i = 1 \/ p[i - 1] = "/"
        /\ \A j \in (i + 1)..Len(p) : p[j] # "/"

\* the input paths that are not hidden, in input order
VisiblePaths(file_paths) == SelectSeq(file_paths, LAMBDA p : ~StartsWithDot(p))

\* C13: by-type planning emits no operation for an input path whose basename
\* starts with '.', whether or not its extension is in the taxonomy, and
\* exactly one operation for every other input path.
C13_HiddenExcluded ==
    plan.kind = "type" =>
        /\ \A k \in 1..Len(plan.operations) : ~StartsWithDot(plan.operations[k].source)
        /\ \A i \in 1..Len(plan.input) :
              Cardinality({k \in 1..Len(plan.operations) :
                              plan.operations[k].source = plan.input[i]})
                 = IF StartsWithDot(plan.input[i]) THEN 0 ELSE 1
        /\ Len(plan.operations) = Len(VisiblePaths(plan.input))

\* a hidden .png and a visible .jpg: only the .jpg is planned
C13_Witness ==
    /\ plan.kind = "type"
    /\ plan.input = <<PathHidden, PathJpg>>
    /\ Len(plan.operations) = 1
    /\ plan.operations[1].source = PathJpg

MainArchives == <<"a", "r", "c", "h", "i", "v", "e", "s">>
MainFonts == <<"f", "o", "n", "t", "s">>
MainWeb == <<"w", "e", "b">>
MainSystem == <<"s", "y", "s", "t", "e", "m">>
FolderRasterImages == <<"i", "m", "a", "g", "e", "s", "/", "r", "a", "s", "t", "e", "r", "_", "i", "m", "a", "g", "e", "s">>

\* the folder of an operation, relative to the output root
RelFolder(operation) ==
    LET d == Dirname(operation.destination)
    IN  SubSeq(d, Len(OutRoot) + 2, Len(d))

\* where the taxonomy lists the extension: <<i, j>> for subcategory j of
\* main category i
TaxonomyListings(ext) ==
    {l \in UNION {{<<i, j>> : j \in 1..Len(file_categories[i][2])} :
                     i \in 1..Len(file_categories)} :
        \E n \in 1..Len(file_categories[l[1]][2][l[2]][2]) :
            file_categories[l[1]][2][l[2]][2][n] = ext}

\* the listing that the extension table holds: the one that comes last
TableListing(ext) ==
    CHOOSE l \in TaxonomyListings(ext) :
        \A m \in TaxonomyListings(ext) :
            m[1] < l[1] \/ (m[1] = l[1] /\ m[2] <= l[2])

\* the folder that goes with a listing: the bare main category when it has
\* exactly one subcategory, main/sub otherwise
ListingFolder(l) ==
    LET main == file_categories[l[1]][1]
        subs == file_categories[l[1]][2]
    IN  IF Len(subs) = 1 THEN main ELSE main \o <<"/">> \o subs[l[2]][1]

\* C14: the destination folder of a non-hidden file is the bare main
\* category when its extension is found in the extension table and the main
\* category has exactly one subcategory (archives, fonts, web, system),
\* main/sub when it is found in a category with several subcategories, and
\* 'others' when the extension is not in the table or the file has none.
C14_FolderRule ==
    plan.kind = "type" =>
        /\ single_subcategory_mains = {MainArchives, MainFonts, MainWeb, MainSystem}
        /\ \A k \in 1..Len(plan.operations) :
              LET ext == Lower(SplitExt(plan.operations[k].source)[2])
              IN  RelFolder(plan.operations[k])
                     = IF TaxonomyListings(ext) = {} THEN FolderOthers
                       ELSE ListingFolder(TableListing(ext))
        /\ \A k \in 1..Len(plan.operations) :
              /\ plan.operations[k].source = PathZip
                    => RelFolder(plan.operations[k]) = MainArchives
              /\ plan.operations[k].source = PathJpg
                    => RelFolder(plan.operations[k]) = FolderRasterImages
              /\ plan.operations[k].source = PathPhp
                    => RelFolder(plan.operations[k]) = MainWeb
              /\ plan.operations[k].source \in {PathNoExt, PathUnknown}
                    => RelFolder(plan.operations[k]) = FolderOthers

\* a .zip (single-subcategory main) planned next to a file without extension
C14_Witness ==
    /\ plan.kind = "type"
    /\ plan.input = <<PathZip, PathNoExt>>
    /\ RelFolder(plan.operations[1]) = MainArchives
    /\ RelFolder(plan.operations[2]) = FolderOthers

\* a and b are the same text up to the case of their letters
SameIgnoringCase(a, b) ==
    /\ Len(a) = Len(b)
    /\ \A k \in 1..Len(a) :
          \/ a[k] = b[k]
          \/ \E n \in 1..Len(UpperChars) :
                {a[k], b[k]} = {UpperChars[n], LowerChars[n]}

\* C15: classification is case-insensitive on the extension: two non-hidden
\* paths whose extensions differ only in letter case (or not at all, as for
\* one path planned twice) get the same destination folder.
C15_CaseInsensitive ==
    plan.kind = "type" =>
        \A i, j \in 1..Len(plan.operations) :
            SameIgnoringCase(SplitExt(plan.operations[i].source)[2],
                             SplitExt(plan.operations[j].source)[2])
                => RelFolder(plan.operations[i]) = RelFolder(plan.operations[j])

\* a.jpg and A.JPG planned together land in images/raster_images
C15_Witness ==
    /\ plan.kind = "type"
    /\ plan.input = <<PathJpg, PathJpgUpper>>
    /\ RelFolder(plan.operations[1]) = FolderRasterImages
    /\ RelFolder(plan.operations[2]) = FolderRasterImages

\* C20: by-date and by-type never rename: the destination's basename is the
\* source's basename, also when two sources share basename and folder, and
\* the operations follow the input order, one per input path (by date) or
\* per non-hidden input path (by type).
C20_NoRename ==
    plan.kind \in {"date", "type"} =>
        LET expected == IF plan.kind = "date" THEN plan.input
                        ELSE VisiblePaths(plan.input)
        IN  /\ Len(plan.operations) = Len(expected)
            /\ \A k \in 1..Len(plan.operations) :
                  /\ plan.operations[k].source = expected[k]
                  /\ Basename(plan.operations[k].destination)
                        = Basename(plan.operations[k].source)

\* /i/a.jpg and /j/a.jpg, both of January 2024: the same destination twice
C20_Witness ==
    /\ plan.kind = "date"
    /\ plan.input = <<PathJpg, PathJpgOtherDir>>
    /\ plan.operations[1].destination = plan.operations[2].destination
    /\ Basename(plan.operations[2].destination) = Basename(PathJpg)

(***************************************************************************)
(* Properties of sanitize_filename                                         *)
(***************************************************************************)
\* only letters, digits and underscores
OnlyAlnumUnderscore(s) ==
    \A i \in 1..Len(s) : s[i] \in LetterChars \cup DigitChars \cup {"_"}

\* the number of tokens that underscores separate in s
TokenCount(s) ==
    Cardinality({i \in 1..Len(s) : s[i] # "_" /\ (i = 1 \/ s[i - 1] = "_")})

AllStopWords(s) ==
    \A i, j \in 1..Len(s) :
        (/\ i <= j
         /\ \A k \in i..j : s[k] \in LetterChars \cup DigitChars
         /\ i = 1 \/ s[i - 1] \notin LetterChars \cup DigitChars
         /\ j = Len(s) \/ s[j + 1] \notin LetterChars \cup DigitChars)
            => Lower(SubSeq(s, i, j)) \in StopWords

\* C17: the result is 'untitled' for the empty string and for every name
\* made of stop-words only, whatever whitespace, underscores or punctuation
\* separate them, and (max_length being at least 1) an empty result is
\* never returned.
C17_StopWordsGiveUntitled ==
    sanitize.called =>
        /\ AllStopWords(sanitize.name) => sanitize.result = Untitled
        /\ sanitize.max_length >= 1 => sanitize.result # NoStr

(***************************************************************************)
(* The caller's sets across compute_operations calls                       *)
(***************************************************************************)
\* the two sets as call c left them: what the next call found, or what the
\* caller holds now
RenamedAfter(c) ==
    IF c < Len(calls) THEN calls[c + 1].renamed_at_call ELSE renamed_files
ProcessedAfter(c) ==
    IF c < Len(calls) THEN calls[c + 1].processed_at_call ELSE processed_files

\* C21: a call changes the two sets only by adding.  processed_files ends
\* as its old value plus the file_path of every input record; renamed_files
\* ends as its old value plus exactly the destinations of the operations the
\* call returned; each destination is in the set when the next record is
\* examined, and nothing is ever removed.
C21_SetsOnlyGrow ==
    \A c \in 1..Len(calls) :
        LET call == calls[c]
            n == Len(call.steps)
        IN  /\ n = Len(call.data_list)
            /\ ProcessedAfter(c) = call.processed_at_call
                  \cup {call.data_list[i].file_path : i \in 1..n}
            /\ RenamedAfter(c) = call.renamed_at_call
                  \cup {call.operations[i].destination : i \in 1..Len(call.operations)}
            /\ \A k \in 1..n :
                  /\ call.steps[k].data = call.data_list[k]
                  /\ call.steps[k].renamed_before
                        = IF k = 1 THEN call.renamed_at_call
                          ELSE call.steps[k - 1].renamed_after
                  /\ call.steps[k].processed_before
                        = IF k = 1 THEN call.processed_at_call
                          ELSE call.steps[k - 1].processed_before
                                  \cup {call.data_list[k - 1].file_path}
                  /\ call.steps[k].renamed_after
                        = call.steps[k].renamed_before
                             \cup (IF call.steps[k].skipped THEN {}
                                   ELSE {call.steps[k].operation.destination})
                  /\ call.steps[k].renamed_before \subseteq RenamedAfter(c)
                  /\ call.steps[k].processed_before \subseteq ProcessedAfter(c)
            /\ n > 0 => RenamedAfter(c) = call.steps[n].renamed_after

\* a second call that found both sets non-empty, skipped a record and
\* allocated a new destination
C21_Witness ==
    /\ Len(calls) = 2
    /\ calls[2].renamed_at_call # {} /\ calls[2].processed_at_call # {}
    /\ \E k \in 1..Len(calls[2].steps) : calls[2].steps[k].skipped
    /\ Len(calls[2].operations) = 1
    /\ Cardinality(renamed_files) = Cardinality(calls[2].renamed_at_call) + 1
    /\ Cardinality(processed_files) = Cardinality(calls[2].processed_at_call) + 1

RECURSIVE Ancestors(_)
\* the directories above a path, up to the root
Ancestors(p) ==
    LET d == Dirname(p)
    IN  IF d = p \/ d = NoStr THEN {} ELSE {d} \cup Ancestors(d)

\* C22 as stated: with dry_run false, an operation whose link action fails
\* leaves the directories and files exactly as they were before it.
C22_AsStated ==
    ~exec.dry_run =>
        \A k \in 1..Len(exec.events) :
            LinkFailed(k) =>
                /\ exec.events[k].fs_after.dirs = exec.events[k].fs_before.dirs
                /\ exec.events[k].fs_after.files = exec.events[k].fs_before.files

\* C22 (amended): with dry_run false, an operation whose link action fails
\* creates no link and changes no file: nothing is created at its
\* destination.  The directories above the destination that were missing
\* have been created before the link was tried, and they stay.
C22_FailedLinkLeavesOnlyDirectories ==
    ~exec.dry_run =>
        \A k \in 1..Len(exec.events) :
            LinkFailed(k) =>
                LET before == exec.events[k].fs_before
                    after == exec.events[k].fs_after
                    destination == exec.operations[k].destination
                IN  /\ after.files = before.files
                    /\ after.dirs = before.dirs \cup Ancestors(destination)
                    /\ FsExists(after, destination) = FsExists(before, destination)

\* the link of /i/b (which does not exist) failed after /o and /o/d had
\* been made for it
C22_Witness ==
    /\ CallEnded /\ ~exec.dry_run
    /\ Len(exec.events) >= 1
    /\ exec.operations[1] = OpB
    /\ LinkFailed(1)
    /\ Dirname(DestB) \notin exec.events[1].fs_before.dirs
    /\ Dirname(DestB) \in exec.events[1].fs_after.dirs

\* C23: every extension of the taxonomy is listed under exactly one (main,
\* sub) pair, so a file whose extension is listed under subcategory S of
\* main category M is placed in the folder of that listing, whatever the
\* order in which the flat table is built.
C23_OneListingPerExtension ==
    plan.kind = "type" =>
        \A k \in 1..Len(plan.operations) :
            LET ext == Lower(SplitExt(plan.operations[k].source)[2])
            IN  /\ Cardinality(TaxonomyListings(ext)) <= 1
                /\ \A l \in TaxonomyListings(ext) :
                      RelFolder(plan.operations[k]) = ListingFolder(l)

\* C24: the message of every operation handled reaches a sink, the display
\* or the log file, for every combination of silent and log_file (silent
\* with no log_file, as WorkerThread calls, included).
C24_MessageReachesASink ==
    exec.pc # "idle" =>
        \/ stdout = Messages
        \/ fs.log = exec.fs0.log \o Messages

(***************************************************************************)
(* Termination of compute_operations                                       *)
(***************************************************************************)
\* membership tests never outnumber the allocated destinations by more
\* than one, for the record in hand and for every record before it
ChecksBounded ==
    /\ compute.checks <= Cardinality(compute.renamed_files) + 1
    /\ \A k \in 1..Len(compute.loops) :
          compute.loops[k].checks <= Cardinality(compute.loops[k].renamed) + 1

\* what the finished call returns is the operation list of the call
ReturnsOperations ==
    compute.pc = "returned" =>
        compute.operations =
            ComputeOperations(compute.data_list, OutRoot,
                compute.renamed_at_call, compute.processed_at_call).operations

\* C27: a compute_operations call on a finite data_list and a finite
\* renamed_files set terminates: for each record the collision loop makes
\* at most |renamed_files| + 1 membership tests, and every call that was
\* started returns, with its operation list.
C27_Terminates ==
    /\ [](ChecksBounded /\ ReturnsOperations)
    /\ (compute.pc # "idle") ~> (compute.pc = "returned")

\* a finished call in which one record needed exactly |renamed_files| + 1
\* tests, two of them hits, and another record was skipped
C27_Witness ==
    /\ compute.pc = "returned"
    /\ Len(compute.operations) < Len(compute.data_list)
    /\ \E k \in 1..Len(compute.loops) :
          /\ Cardinality(compute.loops[k].renamed) = 2
          /\ compute.loops[k].checks = 3

(***************************************************************************)
(* Properties of the window                                                *)
(***************************************************************************)
\* the output roots a planning worker can have been given
OutputPaths ==
    {OutRoot, PathJoin(InDir, OrganizedByDate), PathJoin(InDir, OrganizedByType)}

\* operations is a list the planner of mode id returns
PlannedBy(id, operations) ==
    /\ \A k \in 1..Len(operations) : IsOperation(operations[k])
    /\ \E output_path \in OutputPaths :
         operations = IF id = 1
                      THEN ProcessFilesByDate(DirListing, output_path, GuiModTimes)
                      ELSE ProcessFilesByType(DirListing, output_path)

\* C25: whenever execute_operation starts an execute_operations worker
\* (By Date or By Type checked), the list it hands over is one the planner
\* of the checked mode produced: results of a worker started for another
\* mode are never executed.
C25_ExecutesPlanOfSelectedMode ==
    gui.launch.started => PlannedBy(gui.launch.checkedId, gui.launch.operations)

\* C26: the window reports 'File organization completed successfully!' only
\* for a worker run that went through every operation of the batch: a run
\* that ended in the except branch of WorkerThread.run is never reported as
\* a success.
C26_SuccessOnlyAfterFullRun ==
    gui.message_box = "File organization completed successfully!" =>
        /\ gui.run.ended
        /\ ~gui.run.aborted
        /\ gui.run.done = gui.run.total

====
